---- MODULE Spec2Model ----
(***************************************************************************)
(* The function loader of ash (ash/src/entry.rs): EntryCustom<L>, its      *)
(* construction through caller-supplied open / load strategies, the        *)
(* EntryV1_0 / EntryV1_1 operations and the clone / drop life cycle of an  *)
(* Entry that shares its library through Arc<DynamicLibrary>.              *)
(*                                                                         *)
(* Every operation is one atomic action.  What an operation did is kept in *)
(* `trace` (the strategy, resolver and native calls it made, in order, with*)
(* their outputs), `ret` (its return value) and `vec` (the Vec an          *)
(* enumeration built).                                                     *)
(***************************************************************************)
EXTENDS Integers, Sequences, FiniteSets, TLC

\* ---------------------------------------------------------------- bounds
MaxFacades == 3      \* EntryCustom values ever created (new_custom or clone)
MaxOpens == 2        \* calls of new_custom (failed ones use no facade slot)
MaxCount == 1        \* largest element count a native enumeration reports
MaxInstance == 2     \* raw vk::Instance handles the native layer hands out

\* ------------------------------------------------------------- constants
NullPtr == 0         \* ptr::null / ptr::null_mut
NullInstance == 0    \* vk::Instance::null()

SUCCESS == "SUCCESS"
Statuses == {SUCCESS, "INCOMPLETE", "ERROR_OUT_OF_HOST_MEMORY"}
Versions == {4194304, 4198400}
Faults == {"panic", "segfault"}
Counts == 0..MaxCount
InstanceHandles == 1..MaxInstance
FacadeIds == 1..MaxFacades

BootstrapName == "vkGetInstanceProcAddr"
EntryNamesV1_0 ==
    << "vkCreateInstance",
       "vkEnumerateInstanceExtensionProperties",
       "vkEnumerateInstanceLayerProperties" >>
EntryNamesV1_1 == << "vkEnumerateInstanceVersion" >>

Range(s) == {s[i] : i \in 1..Len(s)}
EntryNames == Range(EntryNamesV1_0) \cup Range(EntryNamesV1_1)
AllNames == {BootstrapName} \cup EntryNames

NameIndex(name) ==
    CASE name = "vkGetInstanceProcAddr" -> 1
      [] name = "vkCreateInstance" -> 2
      [] name = "vkEnumerateInstanceExtensionProperties" -> 3
      [] name = "vkEnumerateInstanceLayerProperties" -> 4
      [] name = "vkEnumerateInstanceVersion" -> 5

TierOf(name) ==
    IF name \in Range(EntryNamesV1_0) THEN 0 ELSE 1

VARIABLES
    exported,       \* names the shared library exports (what `load` can resolve)
    present,        \* names the driver's vkGetInstanceProcAddr resolves
    facades,        \* FacadeIds -> EntryCustom value (or NoEntry)
    libs,           \* handle id -> the Arc<DynamicLibrary>: strong count, mapped
    lastOp,         \* the operation executed last
    lastSelf,       \* the facade it ran on (for new_custom / clone: the new one)
    ret,            \* its return value
    trace,          \* the calls it made
    vec,            \* the Vec built by an enumeration: [len, cap]
    constructions,  \* calls of new_custom so far
    openCalls,      \* invocations of the open strategy so far
    loadCalls,      \* invocations of the load strategy so far
    crashed         \* the process ended abnormally

vars == << exported, present, facades, libs, lastOp, lastSelf, ret, trace, vec,
           constructions, openCalls, loadCalls, crashed >>

\* ------------------------------------------------------------ plain data
Ev(call, name, arg, status, out) ==
    [call |-> call, name |-> name, arg |-> arg, status |-> status, out |-> out]

Ret(kind, status, value) ==
    [kind |-> kind, status |-> status, value |-> value]

NoVec == [len |-> 0, cap |-> 0]

NoTable10 == [n \in Range(EntryNamesV1_0) |-> NullPtr]
NoTable11 == [n \in Range(EntryNamesV1_1) |-> NullPtr]

NoEntry ==
    [state |-> "none", origin |-> "none",
     static_fn |-> [get_instance_proc_addr |-> NullPtr],
     entry_fn_1_0 |-> NoTable10, entry_fn_1_1 |-> NoTable11, lib |-> 0]

NoLib == [strong |-> 0, mapped |-> FALSE]

Count(s, call) == Cardinality({i \in 1..Len(s) : s[i].call = call})

\* ----------------------------------------------- the native library side
\* Address of an exported symbol of the mapped library.
SymAddr(name) == 10 + NameIndex(name)

\* Address the driver hands out for a global command.
ProcAddr(name) == 20 + NameIndex(name)

\* The native vkGetInstanceProcAddr: global commands with a null instance,
\* instance-specific dispatch addresses otherwise, null for unknown names.
vkGetInstanceProcAddr(instance, name) ==
    IF name \notin present THEN NullPtr
    ELSE IF instance = NullInstance THEN ProcAddr(name)
    ELSE ProcAddr(name) + 100 * instance

\* ------------------------------------------------------ the two strategies
\* The open strategy: Ok(handle) or Err(LoadingError::LibraryLoadError).
open(h, ok) ==
    LET res == IF ok THEN "Ok" ELSE "LibraryLoadError"
    IN  [res |-> res, lib |-> h, ev |-> Ev("open", "", h, res, NullPtr)]

\* The load strategy: the symbol's address, or null when it is not exported.
load(lib, name) ==
    LET p == IF name \in exported THEN SymAddr(name) ELSE NullPtr
    IN  [ptr |-> p, ev |-> Ev("load", name, lib, "", p)]

\* ------------------------------------------------------ the table loaders
\* vk::StaticFn::load: one lookup of the bootstrap symbol, stored as found.
StaticFn_load(f) ==
    [fn |-> [get_instance_proc_addr |-> f[BootstrapName].ptr],
     evs |-> << f[BootstrapName].ev >>]

\* vk::EntryFnV1_0::load / vk::EntryFnV1_1::load: one lookup per named
\* operation of the tier, each result stored even when null.
EntryFn_load(names, f) ==
    [fn |-> [n \in Range(names) |-> f[n].ptr],
     evs |-> [i \in 1..Len(names) |-> f[names[i]].ev]]

\* The indirect call static_fn.get_instance_proc_addr(instance, name).
static_get_instance_proc_addr(static_fn, instance, name) ==
    LET p == vkGetInstanceProcAddr(instance, name)
    IN  [ptr |-> p, ev |-> Ev("gipa", name, instance, "", p)]

\* An indirect call through a pointer that was never resolved.
UnresolvedCall(kind, name, fault) ==
    [ret |-> Ret("Abort", fault, 0),
     trace |-> << Ev(kind, name, NullPtr, fault, NullPtr) >>,
     vec |-> NoVec]

\* ------------------------------------------------------------ construction
\* A resolver that asks the caller's load strategy for an entry point.
entry_resolver_1_0_direct(static_fn, name) ==
    load(0, name)

\* The closure handed to EntryFnV1_0::load.
entry_resolver_1_0(static_fn, name) ==
    static_get_instance_proc_addr(static_fn, NullInstance, name)

\* A resolver that passes a per-construction handle instead of the null one.
entry_resolver_1_1_instance(static_fn, name) ==
    static_get_instance_proc_addr(static_fn, constructions + 1, name)

\* The closure handed to EntryFnV1_1::load.
entry_resolver_1_1(static_fn, name) ==
    static_get_instance_proc_addr(static_fn, NullInstance, name)

\* EntryCustom::new_custom(open, load); h is the handle open would return.
new_custom(h, ok, fault) ==
    LET o == open(h, ok)
    IN  IF o.res # "Ok"
        THEN [ret |-> Ret("LoadingError", o.res, 0),
              trace |-> << o.ev >>,
              entry |-> NoEntry]
        ELSE
        LET lib == o.lib
            s == StaticFn_load([n \in {BootstrapName} |-> load(lib, n)])
            static_fn == s.fn
        IN  IF static_fn.get_instance_proc_addr = NullPtr
            THEN [ret |-> Ret("Abort", fault, 0),
                  trace |-> << o.ev >> \o s.evs
                            \o UnresolvedCall("gipa", EntryNamesV1_0[1], fault).trace,
                  entry |-> NoEntry]
            ELSE
            LET e0 == EntryFn_load(EntryNamesV1_0,
                        [n \in Range(EntryNamesV1_0) |-> entry_resolver_1_0(static_fn, n)])
                e1 == EntryFn_load(EntryNamesV1_1,
                        [n \in Range(EntryNamesV1_1) |-> entry_resolver_1_1(static_fn, n)])
            IN  [ret |-> Ret("Ok", "", 0),
                 trace |-> << o.ev >> \o s.evs \o e0.evs \o e1.evs,
                 entry |-> [state |-> "live", origin |-> "new",
                            static_fn |-> static_fn,
                            entry_fn_1_0 |-> e0.fn,
                            entry_fn_1_1 |-> e1.fn,
                            lib |-> lib]]

\* --------------------------------------------------------------- EntryV1_0
fp_v1_0(e) == e.entry_fn_1_0
static_fn(e) == e.static_fn
fp_v1_1(e) == e.entry_fn_1_1

\* create_instance that builds the Instance whatever the status was.
create_instance_always_loads(e, st, inst, fault) ==
    LET fp == fp_v1_0(e)["vkCreateInstance"]
        call == Ev("native", "vkCreateInstance", fp, st, inst)
    IN  [ret |-> Ret("Ok", "", inst),
         trace |-> << call,
                      Ev("Instance::load", "", inst, "",
                         e.static_fn.get_instance_proc_addr) >>,
         vec |-> NoVec]

\* EntryCustom::create_instance; the native call answers (st, inst).
create_instance(e, st, inst, fault) ==
    LET fp == fp_v1_0(e)["vkCreateInstance"]
        instance == IF st = SUCCESS THEN inst ELSE NullInstance
        call == Ev("native", "vkCreateInstance", fp, st, instance)
    IN  IF fp = NullPtr THEN UnresolvedCall("native", "vkCreateInstance", fault)
        ELSE IF st # SUCCESS
        THEN [ret |-> Ret("VkError", st, 0), trace |-> << call >>, vec |-> NoVec]
        ELSE [ret |-> Ret("Ok", "", instance),
              trace |-> << call,
                           Ev("Instance::load", "", instance, "",
                              e.static_fn.get_instance_proc_addr) >>,
              vec |-> NoVec]

\* The layer enumeration with the length taken from the probe call.
enumerate_instance_layer_properties_probe_len(e, s1, n1, s2, n2, fault) ==
    LET name == "vkEnumerateInstanceLayerProperties"
        fp == fp_v1_0(e)[name]
    IN  [ret |-> IF s2 = SUCCESS THEN Ret("Ok", "", n1) ELSE Ret("Err", s2, 0),
         trace |-> << Ev("native", name, fp, s1, n1), Ev("native", name, fp, s2, n2) >>,
         vec |-> [len |-> n1, cap |-> n1]]

\* EntryV1_0::enumerate_instance_layer_properties; the probe call answers
\* (s1, n1), the fill call (s2, n2).
enumerate_instance_layer_properties(e, s1, n1, s2, n2, fault) ==
    LET name == "vkEnumerateInstanceLayerProperties"
        fp == fp_v1_0(e)[name]
        probe == Ev("native", name, fp, s1, n1)
        cap == n1                          \* Vec::with_capacity(num as usize)
        fill == Ev("native", name, fp, s2, n2)
        len == n2                          \* v.set_len(num as usize)
    IN  IF fp = NullPtr THEN UnresolvedCall("native", name, fault)
        ELSE [ret |-> IF s2 = SUCCESS THEN Ret("Ok", "", len) ELSE Ret("Err", s2, 0),
              trace |-> << probe, fill >>,
              vec |-> [len |-> len, cap |-> cap]]

\* The extension enumeration with the buffer allocated before the probe.
enumerate_instance_extension_properties_early_alloc(e, s1, n1, s2, n2, fault) ==
    LET name == "vkEnumerateInstanceExtensionProperties"
        fp == fp_v1_0(e)[name]
    IN  [ret |-> IF s2 = SUCCESS THEN Ret("Ok", "", n2) ELSE Ret("Err", s2, 0),
         trace |-> << Ev("native", name, fp, s1, n1), Ev("native", name, fp, s2, n2) >>,
         vec |-> [len |-> n2, cap |-> 0]]

\* EntryV1_0::enumerate_instance_extension_properties.
enumerate_instance_extension_properties(e, s1, n1, s2, n2, fault) ==
    LET name == "vkEnumerateInstanceExtensionProperties"
        fp == fp_v1_0(e)[name]
        probe == Ev("native", name, fp, s1, n1)
        cap == n1                          \* Vec::with_capacity(num as usize)
        fill == Ev("native", name, fp, s2, n2)
        len == n2                          \* data.set_len(num as usize)
    IN  IF fp = NullPtr THEN UnresolvedCall("native", name, fault)
        ELSE [ret |-> IF s2 = SUCCESS THEN Ret("Ok", "", len) ELSE Ret("Err", s2, 0),
              trace |-> << probe, fill >>,
              vec |-> [len |-> len, cap |-> cap]]

\* A passthrough that resolves the name again through the load strategy.
get_instance_proc_addr_reload(e, instance, name, fault) ==
    LET r == load(e.lib, name)
    IN  [ret |-> Ret("Ptr", "", r.ptr), trace |-> << r.ev >>, vec |-> NoVec]

\* EntryV1_0::get_instance_proc_addr.
get_instance_proc_addr(e, instance, name, fault) ==
    IF static_fn(e).get_instance_proc_addr = NullPtr
    THEN UnresolvedCall("gipa", name, fault)
    ELSE LET r == static_get_instance_proc_addr(static_fn(e), instance, name)
         IN  [ret |-> Ret("Ptr", "", r.ptr), trace |-> << r.ev >>, vec |-> NoVec]

\* --------------------------------------------------------------- EntryV1_1
\* EntryV1_1::enumerate_instance_version; the native call answers (st, v).
enumerate_instance_version(e, st, v, fault) ==
    LET name == "vkEnumerateInstanceVersion"
        fp == fp_v1_1(e)[name]
        call == Ev("native", name, fp, st, v)
    IN  IF fp = NullPtr THEN UnresolvedCall("native", name, fault)
        ELSE [ret |-> IF st = SUCCESS THEN Ret("Ok", "", v) ELSE Ret("Err", st, 0),
              trace |-> << call >>,
              vec |-> NoVec]

\* The version query without the status check.
try_enumerate_instance_version_unchecked(e, st, v, fault) ==
    LET name == "vkEnumerateInstanceVersion"
        r == static_get_instance_proc_addr(static_fn(e), NullInstance, name)
    IN  IF r.ptr = NullPtr
        THEN [ret |-> Ret("OkNone", "", 0), trace |-> << r.ev >>, vec |-> NoVec]
        ELSE [ret |-> Ret("OkSome", "", v),
              trace |-> << r.ev, Ev("native", name, r.ptr, st, v) >>,
              vec |-> NoVec]

\* EntryCustom::try_enumerate_instance_version.
try_enumerate_instance_version(e, st, v, fault) ==
    LET name == "vkEnumerateInstanceVersion"
    IN  IF static_fn(e).get_instance_proc_addr = NullPtr
        THEN UnresolvedCall("gipa", name, fault)
        ELSE
        LET r == static_get_instance_proc_addr(static_fn(e), NullInstance, name)
            call == Ev("native", name, r.ptr, st, v)
        IN  IF r.ptr = NullPtr
            THEN [ret |-> Ret("OkNone", "", 0), trace |-> << r.ev >>, vec |-> NoVec]
            ELSE [ret |-> IF st = SUCCESS THEN Ret("OkSome", "", v)
                                          ELSE Ret("Err", st, 0),
                  trace |-> << r.ev, call >>,
                  vec |-> NoVec]

\* ------------------------------------------------------------ clone / drop
\* A clone that copies the handle without taking a reference.
EntryCustom_clone_untracked(e, ls) ==
    [entry |-> [e EXCEPT !.origin = "clone"], libs |-> ls]

\* #[derive(Clone)] for EntryCustom<Arc<DynamicLibrary>>: the tables are
\* copied, Arc::clone adds one strong reference to the same library.
EntryCustom_clone(e, ls) ==
    [entry |-> [e EXCEPT !.origin = "clone"],
     libs |-> [ls EXCEPT ![e.lib].strong = @ + 1]]

\* Dropping an EntryCustom<Arc<DynamicLibrary>>: the Arc gives up one strong
\* reference, and the last one unmaps the library.
EntryCustom_drop(e, ls) ==
    LET left == ls[e.lib].strong - 1
    IN  [entry |-> [e EXCEPT !.state = "dropped"],
         libs |-> [ls EXCEPT ![e.lib] =
                      [strong |-> left, mapped |-> @.mapped /\ left > 0]]]

\* ------------------------------------------------------------------- state
Init ==
    /\ exported \in {{}, {BootstrapName}, AllNames}
    /\ present \in SUBSET EntryNames
    /\ facades = [f \in FacadeIds |-> NoEntry]
    /\ libs = [h \in FacadeIds |-> NoLib]
    /\ lastOp = "none"
    /\ lastSelf = 0
    /\ ret = Ret("none", "", 0)
    /\ trace = << >>
    /\ vec = NoVec
    /\ constructions = 0
    /\ openCalls = 0
    /\ loadCalls = 0
    /\ crashed = FALSE

\* The abnormal endings of a call through pointer p (none when p is resolved).
FaultsAt(p) == IF p = NullPtr THEN Faults ELSE {"none"}

\* No call is in progress and the last result has been taken.
Idle == ~crashed /\ lastOp = "none"

Free == {f \in FacadeIds : facades[f].state = "none"}
Live == {f \in FacadeIds : facades[f].state = "live"}
FirstFree == CHOOSE f \in Free : \A g \in Free : f <= g

\* What every operation leaves behind: its name, receiver, result and calls.
Record(op, f, r) ==
    /\ lastOp' = op
    /\ lastSelf' = f
    /\ ret' = r.ret
    /\ trace' = r.trace
    /\ openCalls' = openCalls + Count(r.trace, "open")
    /\ loadCalls' = loadCalls + Count(r.trace, "load")
    /\ crashed' = (r.ret.kind = "Abort")
    /\ UNCHANGED << exported, present >>

\* An operation that takes &self: the facade and the library are untouched.
Call(op, f, r) ==
    /\ Record(op, f, r)
    /\ vec' = r.vec
    /\ UNCHANGED << facades, libs, constructions >>

NewCustom ==
    /\ Idle
    /\ constructions < MaxOpens
    /\ \E ok \in BOOLEAN, fault \in Faults :
          /\ ok => Free # {}
          /\ LET f == IF ok THEN FirstFree ELSE 0
                 r == new_custom(f, ok, fault)
             IN  /\ Record("new_custom", f, r)
                 /\ vec' = NoVec
                 /\ constructions' = constructions + 1
                 /\ facades' = IF r.ret.kind = "Ok"
                               THEN [facades EXCEPT ![f] = r.entry]
                               ELSE facades
                 /\ libs' = IF ok
                            THEN [libs EXCEPT ![f] = [strong |-> 1, mapped |-> TRUE]]
                            ELSE libs

Clone ==
    /\ Idle
    /\ Free # {}
    /\ \E f \in Live :
          LET g == FirstFree
              c == EntryCustom_clone(facades[f], libs)
          IN  /\ Record("clone", g, [ret |-> Ret("Unit", "", 0), trace |-> << >>])
              /\ vec' = NoVec
              /\ facades' = [facades EXCEPT ![g] = c.entry]
              /\ libs' = c.libs
              /\ UNCHANGED constructions

Drop ==
    /\ Idle
    /\ \E f \in Live :
          LET d == EntryCustom_drop(facades[f], libs)
          IN  /\ Record("drop", f, [ret |-> Ret("Unit", "", 0), trace |-> << >>])
              /\ vec' = NoVec
              /\ facades' = [facades EXCEPT ![f] = d.entry]
              /\ libs' = d.libs
              /\ UNCHANGED constructions

CreateInstance ==
    /\ Idle
    /\ \E f \in Live, st \in Statuses, inst \in InstanceHandles :
       \E fault \in FaultsAt(fp_v1_0(facades[f])["vkCreateInstance"]) :
          Call("create_instance", f, create_instance(facades[f], st, inst, fault))

EnumerateInstanceLayerProperties ==
    /\ Idle
    /\ \E f \in Live, s1 \in Statuses, n1 \in Counts,
          s2 \in Statuses, n2 \in Counts :
       \E fault \in FaultsAt(fp_v1_0(facades[f])["vkEnumerateInstanceLayerProperties"]) :
          Call("enumerate_instance_layer_properties", f,
               enumerate_instance_layer_properties(facades[f], s1, n1, s2, n2, fault))

EnumerateInstanceExtensionProperties ==
    /\ Idle
    /\ \E f \in Live, s1 \in Statuses, n1 \in Counts,
          s2 \in Statuses, n2 \in Counts :
       \E fault \in FaultsAt(fp_v1_0(facades[f])["vkEnumerateInstanceExtensionProperties"]) :
          Call("enumerate_instance_extension_properties", f,
               enumerate_instance_extension_properties(facades[f], s1, n1, s2, n2, fault))

GetInstanceProcAddr ==
    /\ Idle
    /\ \E f \in Live, instance \in {NullInstance} \cup InstanceHandles,
          name \in EntryNames :
       \E fault \in FaultsAt(static_fn(facades[f]).get_instance_proc_addr) :
          Call("get_instance_proc_addr", f,
               get_instance_proc_addr(facades[f], instance, name, fault))

EnumerateInstanceVersion ==
    /\ Idle
    /\ \E f \in Live, st \in Statuses, v \in Versions :
       \E fault \in FaultsAt(fp_v1_1(facades[f])["vkEnumerateInstanceVersion"]) :
          Call("enumerate_instance_version", f,
               enumerate_instance_version(facades[f], st, v, fault))

TryEnumerateInstanceVersion ==
    /\ Idle
    /\ \E f \in Live, st \in Statuses, v \in Versions :
       \E fault \in FaultsAt(static_fn(facades[f]).get_instance_proc_addr) :
          Call("try_enumerate_instance_version", f,
               try_enumerate_instance_version(facades[f], st, v, fault))

\* The caller drops what the last operation returned (the Vec, the Instance,
\* the pointer, the error); nothing of the call is left.
DropResult ==
    /\ ~crashed
    /\ lastOp # "none"
    /\ lastOp' = "none"
    /\ lastSelf' = 0
    /\ ret' = Ret("none", "", 0)
    /\ trace' = << >>
    /\ vec' = NoVec
    /\ UNCHANGED << exported, present, facades, libs, constructions,
                    openCalls, loadCalls, crashed >>

Next ==
    \/ NewCustom
    \/ Clone
    \/ Drop
    \/ CreateInstance
    \/ EnumerateInstanceLayerProperties
    \/ EnumerateInstanceExtensionProperties
    \/ GetInstanceProcAddr
    \/ EnumerateInstanceVersion
    \/ TryEnumerateInstanceVersion
    \/ DropResult

Spec == Init /\ [][Next]_vars

\* -------------------------------------------------------------- properties
EnumOps ==
    {"enumerate_instance_layer_properties", "enumerate_instance_extension_properties"}

Slot(e, name) ==
    IF name \in DOMAIN e.entry_fn_1_0 THEN e.entry_fn_1_0[name] ELSE e.entry_fn_1_1[name]

Tables(e) == << e.static_fn, e.entry_fn_1_0, e.entry_fn_1_1 >>

Holders(h) == {f \in Live : facades[f].lib = h}

\* C1: in both enumerations, whatever statuses the probe call and the fill
\* call return, the operation returns Ok only when both are SUCCESS, and
\* otherwise returns Err carrying a non-SUCCESS status of one of the calls.
C1_AnyFailedCallIsAnError ==
    (lastOp \in EnumOps /\ ret.kind # "Abort") =>
        LET s1 == trace[1].status
            s2 == trace[2].status
        IN  /\ (ret.kind = "Ok") <=> (s1 = SUCCESS /\ s2 = SUCCESS)
            /\ (s1 # SUCCESS \/ s2 # SUCCESS) =>
                  (ret.kind = "Err" /\ ret.status \in ({s1, s2} \ {SUCCESS}))

\* C2: new_custom returns Err(LoadingError) exactly when the open strategy
\* returned Err, then with that error and without invoking load; whenever
\* open returns Ok it returns Ok, however many symbols resolve to null.
C2_OnlyOpenFailsConstruction ==
    (lastOp = "new_custom") =>
        LET openFailed == trace[1].status # "Ok"
        IN  /\ (ret.kind = "LoadingError") <=> openFailed
            /\ openFailed => (ret.status = trace[1].status /\ Len(trace) = 1)
            /\ ~openFailed => ret.kind = "Ok"

\* C3: try_enumerate_instance_version first looks vkEnumerateInstanceVersion
\* up through the static table's get_instance_proc_addr with a null instance;
\* a null result gives Ok(None) and no further call; otherwise the function
\* found is called once and SUCCESS with v gives Ok(Some(v)), any other
\* status s gives Err(s).
C3_TryVersionDistinguishesAbsentFromFailed ==
    (lastOp = "try_enumerate_instance_version" /\ ret.kind # "Abort") =>
        /\ Len(trace) >= 1
        /\ trace[1] = Ev("gipa", "vkEnumerateInstanceVersion", NullInstance, "",
                         vkGetInstanceProcAddr(NullInstance, "vkEnumerateInstanceVersion"))
        /\ (trace[1].out = NullPtr) => (ret = Ret("OkNone", "", 0) /\ Len(trace) = 1)
        /\ (trace[1].out # NullPtr) =>
              /\ Len(trace) = 2
              /\ trace[2].call = "native"
              /\ trace[2].arg = trace[1].out
              /\ (trace[2].status = SUCCESS) => ret = Ret("OkSome", "", trace[2].out)
              /\ (trace[2].status # SUCCESS) => ret = Ret("Err", trace[2].status, 0)

C3_Witness ==
    /\ lastOp = "try_enumerate_instance_version"
    /\ ret.kind = "Err"
    /\ Len(trace) = 2

\* C4: create_instance calls the resolved creation function exactly once; a
\* non-SUCCESS status s gives InstanceError::VkError(s) and no further call;
\* only on SUCCESS the raw instance handle and the static table go to
\* Instance::load.
C4_CreateInstanceStopsOnFailure ==
    (lastOp = "create_instance" /\ ret.kind # "Abort") =>
        LET e == facades[lastSelf]
        IN  /\ Len(trace) >= 1
            /\ trace[1].call = "native"
            /\ trace[1].name = "vkCreateInstance"
            /\ trace[1].arg = e.entry_fn_1_0["vkCreateInstance"]
            /\ Count(trace, "native") = 1
            /\ (trace[1].status # SUCCESS) =>
                  (ret = Ret("VkError", trace[1].status, 0) /\ Len(trace) = 1)
            /\ (trace[1].status = SUCCESS) =>
                  /\ Len(trace) = 2
                  /\ trace[2].call = "Instance::load"
                  /\ trace[2].arg = trace[1].out
                  /\ trace[2].out = e.static_fn.get_instance_proc_addr
                  /\ ret = Ret("Ok", "", trace[1].out)

C4_Witness ==
    /\ lastOp = "create_instance"
    /\ ret.kind = "VkError"

\* C5: when an enumeration returns Ok, the returned sequence is as long as
\* the count written by the fill call, whatever the probe call reported.
C5_LengthIsTheFillCount ==
    (lastOp \in EnumOps /\ ret.kind = "Ok") =>
        (ret.value = trace[2].out /\ vec.len = trace[2].out)

C5_Witness ==
    /\ lastOp \in EnumOps
    /\ ret.kind = "Ok"
    /\ trace[2].out < trace[1].out

\* C6: with a shared library handle, the library stays mapped while at least
\* one facade sharing it is alive and is released exactly when the last one
\* is dropped: the strong count is the number of live facades holding it.
C6_LibraryOutlivesEveryClone ==
    ~crashed =>
        \A h \in FacadeIds :
            /\ libs[h].strong = Cardinality(Holders(h))
            /\ libs[h].mapped <=> (Holders(h) # {})

C6_Witness ==
    /\ lastOp \in EnumOps \cup {"create_instance", "try_enumerate_instance_version"}
    /\ ret.kind \in {"Ok", "OkSome"}
    /\ facades[lastSelf].origin = "clone"
    /\ \E f \in FacadeIds :
          /\ facades[f].origin = "new"
          /\ facades[f].state = "dropped"
          /\ facades[f].lib = facades[lastSelf].lib

C8_TablesAndStrategiesFrozen ==
    [][ /\ (lastOp' # "new_custom") =>
              /\ openCalls' = openCalls
              /\ loadCalls' = loadCalls
              /\ \A f \in FacadeIds :
                    (facades[f].state # "none") =>
                        Tables(facades'[f]) = Tables(facades[f])
        /\ (lastOp' = "new_custom") =>
              /\ openCalls' = openCalls + 1
              /\ \A f \in FacadeIds :
                    (facades[f].state # "none") =>
                        Tables(facades'[f]) = Tables(facades[f]) ]_vars

C8_Witness ==
    /\ lastOp = "get_instance_proc_addr"
    /\ ret.kind = "Ptr"
    /\ ret.value # NullPtr
    /\ loadCalls = 1
    /\ Cardinality(Live) = 2

\* C9: a successful construction calls open, then the load strategy for the
\* bootstrap symbol, then get_instance_proc_addr with a null instance for
\* the tier 1.0 names, then for the tier 1.1 names; every entry slot holds
\* exactly what that call returned, null included, and the load strategy is
\* used for the bootstrap symbol only.
C9_ConstructionOrderAndSlots ==
    (lastOp = "new_custom" /\ ret.kind = "Ok") =>
        LET e == facades[lastSelf]
            n0 == Len(EntryNamesV1_0)
            n1 == Len(EntryNamesV1_1)
        IN  /\ Len(trace) = 2 + n0 + n1
            /\ trace[1].call = "open"
            /\ trace[2].call = "load"
            /\ trace[2].name = BootstrapName
            /\ e.static_fn.get_instance_proc_addr = trace[2].out
            /\ \A i \in 3..Len(trace) :
                  /\ trace[i].call = "gipa"
                  /\ trace[i].arg = NullInstance
                  /\ trace[i].name \in EntryNames
                  /\ trace[i].out = vkGetInstanceProcAddr(NullInstance, trace[i].name)
                  /\ Slot(e, trace[i].name) = trace[i].out
                  /\ TierOf(trace[i].name) = (IF i <= 2 + n0 THEN 0 ELSE 1)
            /\ {trace[i].name : i \in 3..Len(trace)} = EntryNames

C9_Witness ==
    /\ lastOp = "new_custom"
    /\ ret.kind = "Ok"
    /\ \E n \in EntryNames : Slot(facades[lastSelf], n) = NullPtr
    /\ \E n \in EntryNames : Slot(facades[lastSelf], n) # NullPtr

\* C10 as stated: in both enumerations, whatever the native function answers
\* on the two calls, the length set on the vector never exceeds the capacity
\* allocated from the probe call's count.
C10_LengthWithinCapacity ==
    (lastOp \in EnumOps /\ ret.kind # "Abort") => vec.len <= vec.cap

\* C10 as amended: whenever the fill call writes a count no greater than the
\* count the probe call reported (the size of the buffer it was given), the
\* length set on the vector does not exceed the capacity allocated, also when
\* the fill call fails.
C10_LengthWithinCapacityIfFillFits ==
    (lastOp \in EnumOps /\ ret.kind # "Abort" /\ trace[2].out <= trace[1].out) =>
        vec.len <= vec.cap

C10_Witness ==
    /\ lastOp \in EnumOps
    /\ ret.kind = "Err"
    /\ trace[1].out > 0
    /\ trace[2].out <= trace[1].out
====
